---- MODULE Spec2Model ----
(***************************************************************************)
(* A model of starlink-sim.cc: the link and demand loaders, the adjacency  *)
(* list, Dijkstra and GetPath, the link set-up loop of main (interface and *)
(* address bookkeeping), the demand loop of main (route report, host       *)
(* routes, sink and sender applications), the periodic queue monitor and   *)
(* the per-link transmit/receive counters with their report.               *)
(*                                                                         *)
(* A double is modelled exactly, as an exponent and a 53-bit significand,   *)
(* with addition rounded to nearest, ties to even.  Simulated time is in   *)
(* milliseconds.  The statistics of the flow monitor (SaveResults) are     *)
(* outside the model.                                                      *)
(***************************************************************************)
EXTENDS Integers, Sequences, FiniteSets, TLC

VARIABLES
    pc,               \* position of main
    linkFileOpen,     \* environment: the link file can be opened
    demandFileOpen,   \* environment: the demand file can be opened
    linkRowsOk,       \* environment: well-formed data rows of the link file
    linkRowsBad,      \* environment: malformed data rows of the link file
    demandRowsOk,     \* environment: well-formed data rows of the demand file
    demandRowsBad,    \* environment: malformed data rows of the demand file
    g_links, g_numNodes, g_nodeIdToName, g_adjList, g_demands,
    g_linkInterface, g_nodeFirstIp, g_monitoredLinks,
    nInterfaces,      \* per node: Ipv4::GetNInterfaces()
    ifaceLink,        \* per node: the link behind each interface index
    demandIdx,        \* position of the demand loop in g_demands (1-based)
    src, dst,         \* locals of the demand loop
    dijkstra, path,   \* locals of the demand loop
    port, routeFile, hostRoutes, sinkApps, clientApps,
    simTime, now, events, nextUid, stopped,
    g_monitorFile, g_linkStats, linkStatsFile,
    delivered         \* per notified index: notifications delivered (tx, rx)

loadVars  == <<linkFileOpen, demandFileOpen, linkRowsOk, linkRowsBad, demandRowsOk,
               demandRowsBad>>
topoVars  == <<g_links, g_numNodes, g_nodeIdToName, g_adjList>>
setupVars == <<g_linkInterface, g_nodeFirstIp, g_monitoredLinks, nInterfaces, ifaceLink>>
loopVars  == <<demandIdx, src, dst, dijkstra, path>>
flowVars  == <<port, routeFile, hostRoutes, sinkApps, clientApps>>
simVars   == <<simTime, now, events, nextUid, stopped, g_monitorFile, g_linkStats,
               linkStatsFile, delivered>>
vars == <<pc, loadVars, topoVars, g_demands, setupVars, loopVars, flowVars, simVars>>

(***************************************************************************)
(* Bounds of the checked instances.                                        *)
(***************************************************************************)
MaxId == 2
MaxLinks == 2
MaxDemands == 2
PathMaxId == 3
PathMaxLinks == 4
GridDemands == 2
MaxSimLinks == 2
MaxRounds == 2
MaxQueue == 1
MaxPackets == 4

(***************************************************************************)
(* double.  The doubles of a run are +0, the positive normal numbers and   *)
(* +infinity.  <<e, hi, lo>> is (hi * 2^27 + lo) * 2^e, the 53-bit         *)
(* significand in two limbs with its leading bit set.                      *)
(***************************************************************************)
DBL_MANT_DIG == 53
DBL_MAX_EXP == 1024

\* the low limb holds the lower half of the significand
LimbBits == (DBL_MANT_DIG + 1) \div 2
Limb == 2 ^ LimbBits
HiMin == 2 ^ (DBL_MANT_DIG - LimbBits - 1)

Infinity == <<DBL_MAX_EXP, 0, 0>>
Zero == <<-DBL_MAX_EXP - DBL_MANT_DIG, 0, 0>>
One == <<-52, HiMin, 0>>
Two == <<-51, HiMin, 0>>
Five == <<-50, 5 * 2 ^ 23, 0>>
Quarter == <<-54, HiMin, 0>>
\* 0.1 = 0x1.999999999999ap-4
Tenth == <<-56, 53687091, 26843546>>

\* a < b on doubles
FLess(a, b) ==
    \/ a[1] < b[1]
    \/ a[1] = b[1] /\ a[2] < b[2]
    \/ a[1] = b[1] /\ a[2] = b[2] /\ a[3] < b[3]

\* the significand hi:lo shifted right by d, 0 <= d <= 53, with the last bit
\* shifted out (guard) and whether any bit below it was set (sticky)
ShiftRight(hi, lo, d) ==
    IF d = 0 THEN [hi |-> hi, lo |-> lo, guard |-> 0, sticky |-> FALSE]
    ELSE IF d <= LimbBits
    THEN [hi     |-> hi \div 2 ^ d,
          lo     |-> (hi % 2 ^ d) * 2 ^ (LimbBits - d) + lo \div 2 ^ d,
          guard  |-> (lo \div 2 ^ (d - 1)) % 2,
          sticky |-> lo % 2 ^ (d - 1) # 0]
    ELSE [hi     |-> 0,
          lo     |-> hi \div 2 ^ (d - LimbBits),
          guard  |-> (hi \div 2 ^ (d - LimbBits - 1)) % 2,
          sticky |-> hi % 2 ^ (d - LimbBits - 1) # 0 \/ lo # 0]

\* a finite result, +infinity past the largest double
Finite(e, hi, lo) ==
    IF e + DBL_MANT_DIG > DBL_MAX_EXP THEN Infinity ELSE <<e, hi, lo>>

\* round to nearest, ties to even
RoundToDouble(e, hi, lo, guard, sticky) ==
    IF guard = 0 \/ (~sticky /\ lo % 2 = 0) THEN Finite(e, hi, lo)
    ELSE IF lo + 1 < Limb THEN Finite(e, hi, lo + 1)
    ELSE IF hi + 1 < 2 * HiMin THEN Finite(e, hi + 1, 0)
    ELSE Finite(e + 1, HiMin, 0)

\* the exact sum hi:lo with its rounding bits, brought back to 53 bits
Normalize(e, hi, lo, guard, sticky) ==
    IF hi < 2 * HiMin THEN RoundToDouble(e, hi, lo, guard, sticky)
    ELSE RoundToDouble(e + 1, hi \div 2, (hi % 2) * (Limb \div 2) + lo \div 2,
                       lo % 2, guard = 1 \/ sticky)

AddLimbs(e, hi, lo, b) ==
    Normalize(e, hi + b.hi + (lo + b.lo) \div Limb, (lo + b.lo) % Limb,
              b.guard, b.sticky)

\* a + b for finite nonzero a, b with the exponent of a the larger by d
AddAligned(a, b, d) ==
    IF d > DBL_MANT_DIG THEN a
    ELSE AddLimbs(a[1], a[2], a[3], ShiftRight(b[2], b[3], d))

\* a + b in double arithmetic
FAdd(a, b) ==
    IF a = Infinity \/ b = Infinity THEN Infinity
    ELSE IF a = Zero THEN b
    ELSE IF b = Zero THEN a
    ELSE IF a[1] >= b[1] THEN AddAligned(a, b, a[1] - b[1])
    ELSE AddAligned(b, a, b[1] - a[1])

(***************************************************************************)
(* Dijkstra and GetPath                                                    *)
(***************************************************************************)
\* std::pair<double, uint32_t> under operator<
PairLess(p, q) == FLess(p[1], q[1]) \/ (p[1] = q[1] /\ p[2] < q[2])

\* priority_queue::top() with std::greater: the least pair
PqTop(pq) == CHOOSE p \in pq : \A q \in pq : q = p \/ PairLess(p, q)

\* result.dist[u] + w < result.dist[v], nd the sum
RelaxStrictly(nd, dv) == FLess(nd, dv)

RelaxIfUnseen(nd, dv) == dv = Infinity

DijkstraRelax(nd, dv) == RelaxStrictly(nd, dv)

\* the body of the for loop, for the edge u -> v with nd = result.dist[u] + w
DijkstraEdge(u, v, nd, st) ==
    IF DijkstraRelax(nd, st.dist[v])
    THEN [dist |-> [st.dist EXCEPT ![v] = nd],
          prev |-> [st.prev EXCEPT ![v] = u],
          pq   |-> st.pq \cup {<<nd, v>>}]
    ELSE st

\* the for loop over g_adjList[u], from its i-th element on
RECURSIVE DijkstraEdges(_, _, _, _)
DijkstraEdges(adj, u, i, st) ==
    IF i > Len(adj[u]) THEN st
    ELSE DijkstraEdges(adj, u, i + 1,
             DijkstraEdge(u, adj[u][i][1], FAdd(st.dist[u], adj[u][i][2]), st))

\* the body of the while loop: pop top = (d, u), skip it when d > result.dist[u]
DijkstraPop(adj, top, st) ==
    IF FLess(st.dist[top[2]], top[1]) THEN [st EXCEPT !.pq = st.pq \ {top}]
    ELSE DijkstraEdges(adj, top[2], 1, [st EXCEPT !.pq = st.pq \ {top}])

\* the while loop over the priority queue
RECURSIVE DijkstraLoop(_, _)
DijkstraLoop(adj, st) ==
    IF st.pq = {} THEN [dist |-> st.dist, prev |-> st.prev]
    ELSE DijkstraLoop(adj, DijkstraPop(adj, PqTop(st.pq), st))

\* Dijkstra(src, numNodes) over the adjacency list adj, for s < numNodes
Dijkstra(adj, s, numNodes) ==
    DijkstraLoop(adj,
        [dist |-> [[n \in 0 .. numNodes - 1 |-> Infinity] EXCEPT ![s] = Zero],
         prev |-> [n \in 0 .. numNodes - 1 |-> -1],
         pq   |-> {<<Zero, s>>}])

RECURSIVE GetPathWalk(_, _, _)
GetPathWalk(prev, at, acc) ==
    IF at = -1 THEN acc ELSE GetPathWalk(prev, prev[at], <<at>> \o acc)

GetPathNoCheck(s, d, res) == GetPathWalk(res.prev, d, <<>>)

GetPath(s, d, res) ==
    IF res.dist[d] = Infinity THEN <<>> ELSE GetPathWalk(res.prev, d, <<>>)

NoResult == [dist |-> <<>>, prev |-> <<>>]

(***************************************************************************)
(* Input rows.  A data row is modelled after tokenising: ok is FALSE when  *)
(* a std::stoul / std::stod of the row throws.                             *)
(***************************************************************************)
NodeNames == <<"A", "B", "C", "D", "E">>
NameOf(id) == NodeNames[id + 1]

\* a parsed delay column: sign and magnitude
MinusFive == [neg |-> TRUE, mag |-> Five]
PlusTwo == [neg |-> FALSE, mag |-> Two]
PlusTenth == [neg |-> FALSE, mag |-> Tenth]
PlusQuarter == [neg |-> FALSE, mag |-> Quarter]

LinkRow(s, d, delay) ==
    [ok |-> TRUE, srcId |-> s, dstId |-> d, srcName |-> NameOf(s),
     dstName |-> NameOf(d), delayMs |-> delay]

MalformedLinkRow == [LinkRow(0, 0, PlusTwo) EXCEPT !.ok = FALSE]

DemandRow(id, s, d) ==
    [ok |-> TRUE, demandId |-> id, srcNode |-> NameOf(s), dstNode |-> NameOf(d),
     srcId |-> s, dstId |-> d]

MalformedDemandRow == [DemandRow(0, 0, 0) EXCEPT !.ok = FALSE]

SeqsUpTo(S, n) == UNION {[1 .. k -> S] : k \in 0 .. n}

\* the link files of the main specification
LinkRows ==
    {LinkRow(s, d, w) : s \in 0 .. MaxId, d \in 0 .. MaxId, w \in {MinusFive, PlusTwo}}
        \cup {MalformedLinkRow}
LinkFiles == SeqsUpTo(LinkRows, MaxLinks)

\* the demand files of the main specification: the k-th data row has id k - 1
DemandFiles ==
    UNION {{f \in [1 .. k -> [ok : BOOLEAN, srcId : 0 .. MaxId, dstId : 0 .. MaxId]] :
               \A i \in 1 .. k : ~f[i].ok => (f[i].srcId = 0 /\ f[i].dstId = 0)}
           : k \in 0 .. MaxDemands}
DemandFileRow(f, i) ==
    IF f[i].ok THEN DemandRow(i - 1, f[i].srcId, f[i].dstId) ELSE MalformedDemandRow

(***************************************************************************)
(* LoadLinks and LoadDemands                                               *)
(***************************************************************************)
UintMax(a, b) == IF a < b THEN b ELSE a

\* if (p.delayMs <= 0) p.delayMs = 1.0
CoerceDelay(raw) == IF raw.neg \/ raw.mag = Zero THEN One ELSE raw.mag


\* one pass of the while loop of LoadLinks over a non-blank data row
\* (node ids stay far below 2^32 here: max + 1 does not wrap)
LoadLinksRow(st, row) ==
    IF ~row.ok THEN st
    ELSE LET p == [srcId |-> row.srcId, dstId |-> row.dstId,
                   srcName |-> row.srcName, dstName |-> row.dstName,
                   delayMs |-> CoerceDelay(row.delayMs)]
             m == UintMax(p.srcId, p.dstId) + 1
         IN  [links    |-> Append(st.links, p),
              names    |-> (p.dstId :> p.dstName) @@ (p.srcId :> p.srcName) @@ st.names,
              numNodes |-> IF m > st.numNodes THEN m ELSE st.numNodes]

RECURSIVE LoadLinksRows(_, _, _)
LoadLinksRows(rows, i, st) ==
    IF i > Len(rows) THEN st
    ELSE LoadLinksRows(rows, i + 1, LoadLinksRow(st, rows[i]))

LoadLinksStart == [links |-> <<>>, names |-> <<>>, numNodes |-> 0]

RECURSIVE UntilBadRow(_, _)
UntilBadRow(rows, i) ==
    IF i > Len(rows) \/ ~rows[i].ok THEN SubSeq(rows, 1, i - 1) ELSE UntilBadRow(rows, i + 1)

LoadLinksUntilBadRow(rows) == LoadLinksRows(UntilBadRow(rows, 1), 1, LoadLinksStart)

\* the while loop of LoadLinks over the data rows of the file
LoadLinksFile(rows) == LoadLinksRows(rows, 1, LoadLinksStart)

\* the loop that fills g_adjList after the file is read
RECURSIVE BuildAdjList(_, _, _)
BuildAdjList(links, i, adj) ==
    IF i > Len(links) THEN adj
    ELSE LET link == links[i]
             a1 == [adj EXCEPT ![link.srcId] = Append(@, <<link.dstId, link.delayMs>>)]
             a2 == [a1 EXCEPT ![link.dstId] = Append(@, <<link.srcId, link.delayMs>>)]
         IN  BuildAdjList(links, i + 1, a2)

AdjListOf(links, numNodes) ==
    BuildAdjList(links, 1, [n \in 0 .. numNodes - 1 |-> <<>>])

\* one pass of the while loop of LoadDemands
LoadDemandsRow(demands, row) ==
    IF ~row.ok THEN demands
    ELSE Append(demands,
             [demandId |-> row.demandId, srcNode |-> row.srcNode,
              dstNode |-> row.dstNode, srcId |-> row.srcId, dstId |-> row.dstId])

RECURSIVE LoadDemandsRows(_, _, _)
LoadDemandsRows(f, i, demands) ==
    IF i > Len(f) THEN demands
    ELSE LoadDemandsRows(f, i + 1, LoadDemandsRow(demands, DemandFileRow(f, i)))

RowsOk(f) == Cardinality({i \in 1 .. Len(f) : f[i].ok})
RowsBad(f) == Cardinality({i \in 1 .. Len(f) : ~f[i].ok})

GetNodeName(names, nodeId) ==
    IF nodeId \in DOMAIN names THEN names[nodeId] ELSE "Node_" \o ToString(nodeId)


(***************************************************************************)
(* State before main has read anything                                     *)
(***************************************************************************)
BasePort == 9000
DefaultSimTimeMs == 10000

NothingLoaded ==
    /\ linkRowsOk = 0 /\ linkRowsBad = 0 /\ demandRowsOk = 0 /\ demandRowsBad = 0
    /\ g_links = <<>> /\ g_numNodes = 0 /\ g_nodeIdToName = <<>> /\ g_adjList = <<>>
    /\ g_demands = <<>>

NothingSetUp ==
    /\ g_linkInterface = <<>> /\ g_nodeFirstIp = <<>> /\ g_monitoredLinks = <<>>
    /\ nInterfaces = <<>> /\ ifaceLink = <<>>

NoFlows ==
    /\ demandIdx = 1 /\ src = 0 /\ dst = 0 /\ dijkstra = NoResult /\ path = <<>>
    /\ port = BasePort /\ routeFile = <<>> /\ hostRoutes = <<>>
    /\ sinkApps = <<>> /\ clientApps = <<>>

NotRunning ==
    /\ now = 0 /\ events = {} /\ nextUid = 0 /\ stopped = FALSE
    /\ g_monitorFile = <<>> /\ g_linkStats = <<>> /\ linkStatsFile = <<>>
    /\ delivered = <<>>

(***************************************************************************)
(* main: link set-up loop                                                  *)
(***************************************************************************)
\* the k-th address (k = 0, 1) Ipv4AddressHelper assigns in subnet number sub
AddressOf(sub, k) == <<10, (sub \div 256) % 256, sub % 256, k + 1>>

SetupStart(numNodes) ==
    [linkInterface |-> <<>>, nodeFirstIp |-> <<>>, monitoredLinks |-> <<>>,
     ifaceLink |-> [n \in 0 .. numNodes - 1 |-> <<>>]]

\* GetNInterfaces(): the loopback interface and one interface per attached device
NInterfacesOf(ifl, n) == 1 + Len(ifl[n])


\* if (g_nodeFirstIp.find(n) == end) g_nodeFirstIp[n] = addr
FirstIpSet(firstIp, n, addr) ==
    IF n \in DOMAIN firstIp THEN firstIp ELSE (n :> addr) @@ firstIp

\* one pass of the link loop for link number i (0-based), with sub == i
CreateLink(links, i, st) ==
    LET link == links[i + 1]
        srcId == link.srcId
        dstId == link.dstId
        \* p2p.Install and ipv4.Assign: device 0 on srcId, then device 1 on dstId
        ifl0 == [st.ifaceLink EXCEPT ![srcId] = Append(@, <<i, 0>>)]
        ifl1 == [ifl0 EXCEPT ![dstId] = Append(@, <<i, 1>>)]
        srcIfIndex == NInterfacesOf(ifl1, srcId) - 1
        dstIfIndex == NInterfacesOf(ifl1, dstId) - 1
        li == (<<dstId, srcId>> :> <<dstIfIndex, AddressOf(i, 0)>>)
                  @@ (<<srcId, dstId>> :> <<srcIfIndex, AddressOf(i, 1)>>)
                  @@ st.linkInterface
        fip == FirstIpSet(FirstIpSet(st.nodeFirstIp, srcId, AddressOf(i, 0)),
                          dstId, AddressOf(i, 1))
    IN  [linkInterface  |-> li,
         nodeFirstIp    |-> fip,
         monitoredLinks |-> st.monitoredLinks \o
              <<[srcName |-> link.srcName, dstName |-> link.dstName, device |-> <<i, 0>>],
                [srcName |-> link.dstName, dstName |-> link.srcName, device |-> <<i, 1>>]>>,
         ifaceLink      |-> ifl1]

RECURSIVE CreateLinksFrom(_, _, _)
CreateLinksFrom(links, i, st) ==
    IF i >= Len(links) THEN st
    ELSE CreateLinksFrom(links, i + 1, CreateLink(links, i, st))

\* g_linkStats.resize(g_links.size()) and the name copy
LinkStatsOf(links) ==
    [i \in 1 .. Len(links) |->
        [srcName |-> links[i].srcName, dstName |-> links[i].dstName,
         txPackets |-> 0, rxPackets |-> 0]]

\* the node an assigned address belongs to
NodeOfAddress(links, addr) ==
    LET link == links[addr[2] * 256 + addr[3] + 1]
    IN  IF addr[4] = 1 THEN link.srcId ELSE link.dstId

(***************************************************************************)
(* main: demand loop                                                       *)
(***************************************************************************)
RECURSIVE PathString(_, _, _)
PathString(names, p, j) ==
    IF j > Len(p) THEN ""
    ELSE GetNodeName(names, p[j]) \o (IF j < Len(p) THEN "->" ELSE "")
             \o PathString(names, p, j + 1)

RouteRow(names, demand, p) ==
    [flowId |-> demand.demandId + 1, srcNode |-> demand.srcNode,
     dstNode |-> demand.dstNode, hopCount |-> Len(p) - 1,
     pathString |-> PathString(names, p, 1)]

HopRouteByHopNumber(li, p, hop, destAddr) ==
    [node |-> p[hop], dest |-> destAddr,
     nextHop |-> li[<<p[hop], p[hop + 1]>>][2], ifIndex |-> hop - 1]

HopRouteOwnAddress(li, p, hop, destAddr) ==
    [node |-> p[hop], dest |-> destAddr,
     nextHop |-> li[<<p[hop + 1], p[hop]>>][2],
     ifIndex |-> li[<<p[hop], p[hop + 1]>>][1]]

\* AddHostRouteTo(destAddr, nextHopAddr, ifIndex) at path[hop]
HopRoute(li, p, hop, destAddr) ==
    [node |-> p[hop], dest |-> destAddr,
     nextHop |-> li[<<p[hop], p[hop + 1]>>][2],
     ifIndex |-> li[<<p[hop], p[hop + 1]>>][1]]

\* the per-hop loop; hop is 1-based here
RECURSIVE InstallRoutes(_, _, _, _, _)
InstallRoutes(li, p, hop, destAddr, routes) ==
    IF hop > Len(p) - 1 THEN routes
    ELSE IF <<p[hop], p[hop + 1]>> \notin DOMAIN li
         THEN InstallRoutes(li, p, hop + 1, destAddr, routes)
         ELSE InstallRoutes(li, p, hop + 1, destAddr,
                            Append(routes, HopRoute(li, p, hop, destAddr)))


(***************************************************************************)
(* PathSpec: Dijkstra and GetPath called on the adjacency lists LoadLinks  *)
(* builds from files of up to PathMaxLinks links over nodes 0..PathMaxId.  *)
(***************************************************************************)
PathRows ==
    {LinkRow(s, d, w) : s \in 0 .. PathMaxId, d \in 0 .. PathMaxId,
                        w \in {PlusTenth, PlusQuarter}}
\* rows name their lower endpoint first and are listed in order of their endpoints
PathRowOrder(r) == r.srcId * (PathMaxId + 1) + r.dstId
PathFiles ==
    UNION {{f \in [1 .. k -> {r \in PathRows : r.srcId < r.dstId}] :
               \A i \in 1 .. k - 1 : PathRowOrder(f[i]) <= PathRowOrder(f[i + 1])}
           : k \in 1 .. PathMaxLinks}

PathInit ==
    /\ pc = "PathCall"
    /\ linkFileOpen = TRUE /\ demandFileOpen = TRUE
    /\ demandRowsOk = 0 /\ demandRowsBad = 0
    /\ \E f \in PathFiles :
          LET st == LoadLinksFile(f)
          IN  /\ linkRowsOk = RowsOk(f) /\ linkRowsBad = RowsBad(f)
              /\ g_links = st.links
              /\ g_numNodes = st.numNodes
              /\ g_nodeIdToName = st.names
              /\ g_adjList = AdjListOf(st.links, st.numNodes)
    /\ g_demands = <<>>
    /\ NothingSetUp
    /\ demandIdx = 1 /\ src \in 0 .. g_numNodes - 1 /\ dst = 0
    /\ dijkstra = NoResult /\ path = <<>>
    /\ port = BasePort /\ routeFile = <<>> /\ hostRoutes = <<>>
    /\ sinkApps = <<>> /\ clientApps = <<>>
    /\ simTime = DefaultSimTimeMs
    /\ NotRunning

\* DijkstraResult dijkstra = Dijkstra(src, g_numNodes)
PathDijkstra ==
    /\ pc = "PathCall"
    /\ dijkstra' = Dijkstra(g_adjList, src, g_numNodes)
    /\ pc' = "PathGet"
    /\ UNCHANGED <<loadVars, topoVars, g_demands, setupVars, demandIdx, src, dst, path,
                   flowVars, simVars>>

\* std::vector<uint32_t> path = GetPath(src, dst, dijkstra)
PathGetPath ==
    /\ pc = "PathGet"
    /\ \E d \in 0 .. g_numNodes - 1 :
          /\ dst' = d
          /\ path' = GetPath(src, d, dijkstra)
    /\ pc' = "PathDone"
    /\ UNCHANGED <<loadVars, topoVars, g_demands, setupVars, demandIdx, src, dijkstra,
                   flowVars, simVars>>

PathNext == PathDijkstra \/ PathGetPath

PathSpec == PathInit /\ [][PathNext]_vars

(***************************************************************************)
(* Reference: every sum of delays along a simple path from s, added up     *)
(* from s in double arithmetic, by exhaustive enumeration.                 *)
(***************************************************************************)
RECURSIVE AllSums(_, _, _, _)
AllSums(adj, visited, at, sum) ==
    {<<at, sum>>} \cup
    UNION {AllSums(adj, visited \cup {adj[at][i][1]}, adj[at][i][1],
                   FAdd(sum, adj[at][i][2]))
           : i \in {j \in 1 .. Len(adj[at]) : adj[at][j][1] \notin visited}}

MinSum(sums, v) ==
    LET c == {p[2] : p \in {q \in sums : q[1] = v}}
    IN  IF c = {} THEN Infinity
        ELSE CHOOSE x \in c : \A y \in c : ~FLess(y, x)

IsEdge(adj, u, v) == \E i \in 1 .. Len(adj[u]) : adj[u][i][1] = v

\* C1: on every adjacency list LoadLinks builds and every source below numNodes,
\* Dijkstra returns, for each node, the least sum of delays over the paths from the
\* source (0 for the source itself); a node no path reaches keeps +infinity and -1.
C1_DijkstraMinimal ==
    pc = "PathGet" =>
        LET sums == AllSums(g_adjList, {src}, src, Zero)
        IN  /\ DOMAIN dijkstra.dist = 0 .. g_numNodes - 1
            /\ dijkstra.dist[src] = Zero
            /\ \A v \in 0 .. g_numNodes - 1 :
                  /\ dijkstra.dist[v] = MinSum(sums, v)
                  /\ (\A q \in sums : q[1] # v) =>
                        (dijkstra.dist[v] = Infinity /\ dijkstra.prev[v] = -1)

\* a source with a two-hop shortest path that beats a direct link, and a node it
\* cannot reach
C1_Witness ==
    /\ pc = "PathGet"
    /\ \E v \in 0 .. g_numNodes - 1 :
          /\ dijkstra.prev[v] \notin {-1, src}
          /\ IsEdge(g_adjList, src, v)
    /\ \E v \in 0 .. g_numNodes - 1 : dijkstra.dist[v] = Infinity

\* C2: GetPath returns the empty sequence exactly when dist[dst] is infinite;
\* otherwise the sequence runs from src to dst, repeats no node, and every
\* consecutive pair is an edge of the adjacency list.
C2_GetPathShape ==
    pc = "PathDone" =>
        /\ (path = <<>>) <=> (dijkstra.dist[dst] = Infinity)
        /\ path # <<>> =>
              /\ path[1] = src
              /\ path[Len(path)] = dst
              /\ \A i, j \in 1 .. Len(path) : i # j => path[i] # path[j]
              /\ \A i \in 1 .. Len(path) - 1 : IsEdge(g_adjList, path[i], path[i + 1])

C2_Witness ==
    /\ pc = "PathDone"
    /\ Len(path) = 3
    /\ \E v \in 0 .. g_numNodes - 1 : dijkstra.dist[v] = Infinity


(***************************************************************************)
(* Spec: main from the first file read to the call of Simulator::Run().    *)
(* SimSpec below takes the run and the reports after it.                   *)
(***************************************************************************)
MonitorIntervalMs == 100

Init ==
    /\ pc = "LoadLinks"
    /\ linkFileOpen \in BOOLEAN /\ demandFileOpen \in BOOLEAN
    /\ NothingLoaded /\ NothingSetUp /\ NoFlows
    /\ simTime = DefaultSimTimeMs
    /\ NotRunning

\* if (!LoadLinks(linkFile)) return 1, the file not opening
LoadLinksCannotOpen ==
    /\ pc = "LoadLinks"
    /\ ~linkFileOpen
    /\ pc' = "exit1"
    /\ UNCHANGED <<loadVars, topoVars, g_demands, setupVars, loopVars, flowVars, simVars>>

\* if (!LoadLinks(linkFile)) return 1, the file read to its end
LoadLinks ==
    /\ pc = "LoadLinks"
    /\ linkFileOpen
    /\ \E f \in LinkFiles :
          LET st == LoadLinksFile(f)
          IN  /\ g_links' = st.links
              /\ g_numNodes' = st.numNodes
              /\ g_nodeIdToName' = st.names
              /\ g_adjList' = AdjListOf(st.links, st.numNodes)
              /\ linkRowsOk' = RowsOk(f) /\ linkRowsBad' = RowsBad(f)
              /\ pc' = IF st.links = <<>> THEN "exit1" ELSE "LoadDemands"
    /\ UNCHANGED <<linkFileOpen, demandFileOpen, demandRowsOk, demandRowsBad, g_demands,
                   setupVars,
                   loopVars, flowVars, simVars>>

\* if (!LoadDemands(demandFile)) return 1, the file not opening
LoadDemandsCannotOpen ==
    /\ pc = "LoadDemands"
    /\ ~demandFileOpen
    /\ pc' = "exit1"
    /\ UNCHANGED <<loadVars, topoVars, g_demands, setupVars, loopVars, flowVars, simVars>>

\* if (!LoadDemands(demandFile)) return 1, the file read to its end
LoadDemands ==
    /\ pc = "LoadDemands"
    /\ demandFileOpen
    /\ \E f \in DemandFiles :
          LET demands == LoadDemandsRows(f, 1, <<>>)
          IN  /\ g_demands' = demands
              /\ demandRowsOk' = RowsOk(f) /\ demandRowsBad' = RowsBad(f)
              /\ pc' = IF demands = <<>> THEN "exit1" ELSE "Setup"
    /\ UNCHANGED <<linkFileOpen, demandFileOpen, linkRowsOk, linkRowsBad, topoVars,
                   setupVars,
                   loopVars, flowVars, simVars>>

\* from g_linkStats.resize to the end of the link loop
CreateLinks ==
    /\ pc = "Setup"
    /\ LET st == CreateLinksFrom(g_links, 0, SetupStart(g_numNodes))
       IN  /\ g_linkInterface' = st.linkInterface
           /\ g_nodeFirstIp' = st.nodeFirstIp
           /\ g_monitoredLinks' = st.monitoredLinks
           /\ ifaceLink' = st.ifaceLink
           /\ nInterfaces' = [n \in 0 .. g_numNodes - 1 |-> NInterfacesOf(st.ifaceLink, n)]
    /\ g_linkStats' = LinkStatsOf(g_links)
    /\ delivered' = [i \in 0 .. Len(g_links) |-> [tx |-> 0, rx |-> 0]]
    /\ port' = BasePort
    /\ pc' = "Demands"
    /\ UNCHANGED <<loadVars, topoVars, g_demands, loopVars, routeFile, hostRoutes,
                   sinkApps, clientApps, simTime, now, events, nextUid, stopped,
                   g_monitorFile, linkStatsFile>>

InDemandLoop == pc = "Demands" /\ demandIdx <= Len(g_demands)

Skip(demand) ==
    /\ demandIdx' = demandIdx + 1
    /\ src' = demand.srcId /\ dst' = demand.dstId
    /\ pc' = pc
    /\ UNCHANGED <<loadVars, topoVars, g_demands, setupVars, flowVars, simVars>>

\* if (g_nodeFirstIp.find(dst) == g_nodeFirstIp.end()) continue
DemandWithoutAddress ==
    /\ InDemandLoop
    /\ LET demand == g_demands[demandIdx]
       IN  /\ demand.dstId \notin DOMAIN g_nodeFirstIp
           /\ Skip(demand)
           /\ dijkstra' = NoResult /\ path' = <<>>

\* Dijkstra(src, g_numNodes) with src >= g_numNodes: result.dist[src] = 0 writes past
\* the vector, and the loop reads result.dist[src] and g_adjList[src] past their ends.
\* The behaviour is undefined: either the process dies on one of these accesses, or
\* they touch nothing the run reads again, the loop finds no edge and every node
\* keeps +infinity.
DemandSourceOutOfRange ==
    /\ InDemandLoop
    /\ LET demand == g_demands[demandIdx]
       IN  /\ demand.dstId \in DOMAIN g_nodeFirstIp
           /\ demand.srcId >= g_numNodes
           /\ \/ /\ pc' = "crashed"
                 /\ src' = demand.srcId /\ dst' = demand.dstId
                 /\ UNCHANGED <<demandIdx, dijkstra, path, loadVars, topoVars, g_demands,
                                setupVars, flowVars, simVars>>
              \/ /\ Skip(demand)
                 /\ dijkstra' = [dist |-> [n \in 0 .. g_numNodes - 1 |-> Infinity],
                                 prev |-> [n \in 0 .. g_numNodes - 1 |-> -1]]
                 /\ path' = <<>>

\* if (path.empty() || path.size() < 2) continue
DemandWithoutPath ==
    /\ InDemandLoop
    /\ LET demand == g_demands[demandIdx]
       IN  /\ demand.dstId \in DOMAIN g_nodeFirstIp
           /\ demand.srcId < g_numNodes
           /\ dijkstra' = Dijkstra(g_adjList, demand.srcId, g_numNodes)
           /\ path' = GetPath(demand.srcId, demand.dstId, dijkstra')
           /\ Len(path') < 2
           /\ Skip(demand)

\* the rest of the loop body: route report row, host routes, sink, sender, port++
DemandRouted ==
    /\ InDemandLoop
    /\ LET demand == g_demands[demandIdx]
           destAddr == g_nodeFirstIp[demand.dstId]
       IN  /\ demand.dstId \in DOMAIN g_nodeFirstIp
           /\ demand.srcId < g_numNodes
           /\ dijkstra' = Dijkstra(g_adjList, demand.srcId, g_numNodes)
           /\ path' = GetPath(demand.srcId, demand.dstId, dijkstra')
           /\ Len(path') >= 2
           /\ src' = demand.srcId /\ dst' = demand.dstId
           /\ routeFile' = Append(routeFile, RouteRow(g_nodeIdToName, demand, path'))
           /\ hostRoutes' = InstallRoutes(g_linkInterface, path', 1, destAddr, hostRoutes)
           /\ sinkApps' = Append(sinkApps, [node |-> demand.dstId, port |-> port])
           /\ clientApps' = Append(clientApps,
                  [node |-> demand.srcId, remote |-> destAddr, port |-> port])
           /\ port' = (port + 1) % 65536
    /\ demandIdx' = demandIdx + 1
    /\ pc' = pc
    /\ UNCHANGED <<loadVars, topoVars, g_demands, setupVars, simVars>>

\* routeFile.close(), Simulator::Schedule(Seconds(0.1), &MonitorQueues, 0.1),
\* Simulator::Stop(Seconds(simTime))
ScheduleRun ==
    /\ pc = "Demands"
    /\ demandIdx > Len(g_demands)
    /\ events' = {[time |-> MonitorIntervalMs, uid |-> nextUid, kind |-> "monitor"],
                  [time |-> simTime, uid |-> nextUid + 1, kind |-> "stop"]}
    /\ nextUid' = nextUid + 2
    /\ pc' = "Run"
    /\ UNCHANGED <<loadVars, topoVars, g_demands, setupVars, loopVars, flowVars,
                   simTime, now, stopped, g_monitorFile, g_linkStats, linkStatsFile,
                   delivered>>

Next ==
    \/ LoadLinksCannotOpen \/ LoadLinks \/ LoadDemandsCannotOpen \/ LoadDemands
    \/ CreateLinks
    \/ DemandWithoutAddress \/ DemandSourceOutOfRange \/ DemandWithoutPath \/ DemandRouted
    \/ ScheduleRun

Spec == Init /\ [][Next]_vars


(***************************************************************************)
(* Claims checked under Spec                                               *)
(***************************************************************************)
LinksJoining(u, v) ==
    {i \in 1 .. Len(g_links) :
        \/ (g_links[i].srcId = u /\ g_links[i].dstId = v)
        \/ (g_links[i].srcId = v /\ g_links[i].dstId = u)}

\* the first address assigned to node n: on the first link that names n
FirstAssigned(n) ==
    LET i == CHOOSE j \in 1 .. Len(g_links) :
                 /\ n \in {g_links[j].srcId, g_links[j].dstId}
                 /\ \A h \in 1 .. j - 1 : n \notin {g_links[h].srcId, g_links[h].dstId}
    IN  AddressOf(i - 1, IF g_links[i].srcId = n THEN 0 ELSE 1)

RECURSIVE ArrowJoined(_)
ArrowJoined(names) ==
    IF Len(names) = 1 THEN names[1]
    ELSE ArrowJoined(SubSeq(names, 1, Len(names) - 1)) \o "->" \o names[Len(names)]

\* C3: processing a demand whose path is n0..nk, k >= 1, appends to the installed
\* host routes exactly one entry per hop i = 0..k-1, in that order, at node ni, for
\* the first address assigned to the destination, with the interface index and the
\* next-hop address recorded for (ni, ni+1); and it writes one route-report row
\* with hop count k and the names of n0..nk in order.
C3_RoutesAlongPath ==
    [][(pc = "Demands" /\ demandIdx' = demandIdx + 1 /\ Len(path') >= 2) =>
          LET k == Len(path') - 1
          IN  /\ \A i \in 1 .. k : <<path'[i], path'[i + 1]>> \in DOMAIN g_linkInterface
              /\ hostRoutes' = hostRoutes \o
                    [i \in 1 .. k |->
                        [node    |-> path'[i],
                         dest    |-> FirstAssigned(dst'),
                         nextHop |-> g_linkInterface[<<path'[i], path'[i + 1]>>][2],
                         ifIndex |-> g_linkInterface[<<path'[i], path'[i + 1]>>][1]]]
              /\ Len(routeFile') = Len(routeFile) + 1
              /\ routeFile'[Len(routeFile')].hopCount = k
              /\ routeFile'[Len(routeFile')].pathString =
                    ArrowJoined([i \in 1 .. k + 1 |-> g_nodeIdToName[path'[i]]])
    ]_vars

\* the demand A -> C over the links A-B, B-C has just been processed
C3_Witness ==
    /\ pc = "Demands"
    /\ demandIdx > 1
    /\ path = <<0, 1, 2>>
    /\ Len(hostRoutes) >= 2
    /\ hostRoutes[Len(hostRoutes)].node = 1
    /\ hostRoutes[Len(hostRoutes) - 1].node = 0
    /\ routeFile # <<>>
    /\ routeFile[Len(routeFile)].hopCount = 2
    /\ routeFile[Len(routeFile)].pathString = "A->B->C"

\* some chain of links leads from node s to node d
Connected(s, d) ==
    /\ s < g_numNodes /\ d < g_numNodes
    /\ \E q \in AllSums(g_adjList, {s}, s, Zero) : q[1] = d

\* C4: a demand whose destination no link names, or with no path from its source
\* to its destination, or with source = destination, is skipped: the loop moves on
\* to the next demand and no report row, host route, sink, sender or port number
\* comes of it.
C4_SkippedDemandLeavesNoTrace ==
    [][(pc = "Demands" /\ demandIdx <= Len(g_demands) /\
        LET demand == g_demands[demandIdx]
        IN  \/ \A i \in 1 .. Len(g_links) :
                  demand.dstId \notin {g_links[i].srcId, g_links[i].dstId}
            \/ ~Connected(demand.srcId, demand.dstId)
            \/ demand.srcId = demand.dstId)
       => /\ pc' = "Demands"
          /\ demandIdx' = demandIdx + 1
          /\ UNCHANGED <<routeFile, hostRoutes, sinkApps, clientApps, port>>
    ]_vars

LinkOfRoute(r) == g_links[ifaceLink[r.node][r.ifIndex][1] + 1]

LinkOfAddress(addr) == g_links[addr[2] * 256 + addr[3] + 1]

IsLeastDelay(link, u, v) ==
    /\ {link.srcId, link.dstId} = {u, v}
    /\ \A i \in LinksJoining(u, v) : ~FLess(g_links[i].delayMs, link.delayMs)

\* C9: the interface and the next-hop address of every installed host route belong
\* to a link between the node and the next node of the path whose delay is the
\* least among the links joining the two.
C9_RouteUsesCheapestLink ==
    \A j \in 1 .. Len(hostRoutes) :
        LET r == hostRoutes[j]
            v == NodeOfAddress(g_links, r.nextHop)
        IN  /\ IsLeastDelay(LinkOfRoute(r), r.node, v)
            /\ IsLeastDelay(LinkOfAddress(r.nextHop), r.node, v)


(***************************************************************************)
(* GridSpec: the set-up and the demand loop over a five-node ladder        *)
(*     0 - 1 - 2 - 4,  1 - 3 - 4                                           *)
(* whose five link delays are each 0.1 ms or 0.25 ms, with up to           *)
(* GridDemands demands between any two of its nodes.                       *)
(***************************************************************************)
GridEdges == <<<<0, 1>>, <<1, 2>>, <<1, 3>>, <<2, 4>>, <<3, 4>>>>
GridNodes == UNION {{GridEdges[i][1], GridEdges[i][2]} : i \in 1 .. Len(GridEdges)}

GridLinkFiles ==
    {[i \in 1 .. Len(GridEdges) |-> LinkRow(GridEdges[i][1], GridEdges[i][2], w[i])]
        : w \in [1 .. Len(GridEdges) -> {PlusTenth, PlusQuarter}]}

GridDemandFiles ==
    UNION {[1 .. k -> [ok : {TRUE}, srcId : GridNodes, dstId : GridNodes]]
           : k \in 1 .. GridDemands}

GridInit ==
    /\ pc = "Setup"
    /\ linkFileOpen = TRUE /\ demandFileOpen = TRUE
    /\ \E f \in GridLinkFiles :
          LET st == LoadLinksFile(f)
          IN  /\ linkRowsOk = RowsOk(f) /\ linkRowsBad = RowsBad(f)
              /\ g_links = st.links
              /\ g_numNodes = st.numNodes
              /\ g_nodeIdToName = st.names
              /\ g_adjList = AdjListOf(st.links, st.numNodes)
    /\ \E f \in GridDemandFiles :
          /\ demandRowsOk = RowsOk(f) /\ demandRowsBad = RowsBad(f)
          /\ g_demands = LoadDemandsRows(f, 1, <<>>)
    /\ NothingSetUp /\ NoFlows
    /\ simTime = DefaultSimTimeMs
    /\ NotRunning

GridNext == CreateLinks \/ DemandWithoutPath \/ DemandRouted

GridSpec == GridInit /\ [][GridNext]_vars

\* C5: any two host routes installed at the same node for the same destination
\* address name the same interface and the same next hop.
C5_NoConflictingRoutes ==
    \A i, j \in 1 .. Len(hostRoutes) :
        (hostRoutes[i].node = hostRoutes[j].node /\ hostRoutes[i].dest = hostRoutes[j].dest)
            => /\ hostRoutes[i].ifIndex = hostRoutes[j].ifIndex
               /\ hostRoutes[i].nextHop = hostRoutes[j].nextHop

AllDemandsProcessed == pc = "Demands" /\ demandIdx > Len(g_demands)

\* the earliest-installed host route at node n for address dest, 0 when none
EarliestRoute(n, dest) ==
    LET idx == {i \in 1 .. Len(hostRoutes) :
                   hostRoutes[i].node = n /\ hostRoutes[i].dest = dest}
    IN  IF idx = {} THEN 0 ELSE CHOOSE i \in idx : \A j \in idx : i <= j

RECURSIVE WalkReaches(_, _, _, _, _)
WalkReaches(n, dest, target, visited, hopsLeft) ==
    IF n = target THEN TRUE
    ELSE IF hopsLeft = 0 \/ EarliestRoute(n, dest) = 0 THEN FALSE
    ELSE LET nxt == NodeOfAddress(g_links, hostRoutes[EarliestRoute(n, dest)].nextHop)
         IN  /\ nxt \notin visited
             /\ WalkReaches(nxt, dest, target, visited \cup {nxt}, hopsLeft - 1)

RECURSIVE HopCountSum(_)
HopCountSum(rows) ==
    IF rows = <<>> THEN 0 ELSE rows[1].hopCount + HopCountSum(Tail(rows))

\* C10: once all demands are processed, for every demand that got a sender, the walk
\* from its source along the earliest-installed host route for its destination
\* address at each node finds a route at every node before the destination, visits
\* no node twice and reaches the destination node within numNodes - 1 hops; and no
\* hop of any reported path went without its route.
C10_RoutesLeadToDestination ==
    AllDemandsProcessed =>
        /\ Len(clientApps) = Len(sinkApps)
        /\ \A j \in 1 .. Len(clientApps) :
              WalkReaches(clientApps[j].node, clientApps[j].remote, sinkApps[j].node,
                          {clientApps[j].node}, g_numNodes - 1)
        /\ Len(hostRoutes) = HopCountSum(routeFile)

\* two demands were routed and left conflicting routes at a node they share
C10_Witness ==
    /\ AllDemandsProcessed
    /\ Len(clientApps) = 2
    /\ ~C5_NoConflictingRoutes


(***************************************************************************)
(* The event loop of Simulator::Run(), MonitorQueues, the link callbacks   *)
(* and the reports written after the run                                   *)
(***************************************************************************)
\* events run in order of their time and, at equal times, of their scheduling
EventBefore(e, f) == e.time < f.time \/ (e.time = f.time /\ e.uid < f.uid)

NextEvent(evs) == CHOOSE e \in evs : \A f \in evs : f = e \/ EventBefore(e, f)

\* operator<< of a double on a stream with the default precision: the value
\* rounded to six significant decimal digits.  DecimalUnit is the weight of the
\* last digit kept.
SignificantDigits == 6

RECURSIVE DecimalUnit(_, _)
DecimalUnit(t, p) ==
    IF t \div p < 10 ^ SignificantDigits THEN p ELSE DecimalUnit(t, 10 * p)

RoundToUnit(t, p) ==
    IF 2 * (t % p) > p \/ (2 * (t % p) = p /\ (t \div p) % 2 = 1)
    THEN (t \div p + 1) * p
    ELSE (t \div p) * p

FormatTime(t) == RoundToUnit(t, DecimalUnit(t, 1))

NextSampleAbsolute(t, interval) == t + (t + interval)

\* Simulator::Schedule(Seconds(interval), ...) called at time t
NextSample(t, interval) == t + interval

\* the rows one call of MonitorQueues writes, depth[i] the queue length of entry i
MonitorRows(entries, t, depth) ==
    [i \in 1 .. Len(entries) |->
        [time |-> FormatTime(t), srcName |-> entries[i].srcName,
         dstName |-> entries[i].dstName, qSize |-> depth[i]]]

CountTx(stats, linkIndex) ==
    IF linkIndex < Len(stats)
    THEN [stats EXCEPT ![linkIndex + 1].txPackets = @ + 1]
    ELSE stats

CountRx(stats, linkIndex) ==
    IF linkIndex < Len(stats)
    THEN [stats EXCEPT ![linkIndex + 1].rxPackets = @ + 1]
    ELSE stats

LostSigned(tx, rx) == tx - rx

\* (st.txPackets >= st.rxPackets) ? (st.txPackets - st.rxPackets) : 0
LostPackets(tx, rx) == IF tx >= rx THEN tx - rx ELSE 0

\* (double)lost / st.txPackets, or 0.0, as std::fixed with six decimals prints it,
\* in millionths.  The double quotient is within 2^-53 of lost / tx, which moves
\* the sixth decimal only when lost * 10^6 / tx is within 10^-9 of a half, and
\* that takes tx >= 128.
PacketLossRate(lost, tx) ==
    IF tx > 0 THEN (2 * lost * 1000000 + tx) \div (2 * tx) ELSE 0

SaveLinkStats(links, stats) ==
    [i \in 1 .. Len(links) |->
        [srcName |-> links[i].srcName, dstName |-> links[i].dstName,
         txPackets |-> stats[i].txPackets, rxPackets |-> stats[i].rxPackets,
         lostPackets |-> LostPackets(stats[i].txPackets, stats[i].rxPackets),
         packetLossRate |->
             PacketLossRate(LostPackets(stats[i].txPackets, stats[i].rxPackets),
                            stats[i].txPackets)]]

RECURSIVE Notifications(_, _)
Notifications(d, i) ==
    IF i \notin DOMAIN d THEN 0 ELSE d[i].tx + d[i].rx + Notifications(d, i + 1)

(***************************************************************************)
(* SimSpec: the set-up, one routed demand and the run, over a chain of up  *)
(* to MaxSimLinks links, with the stop time a multiple of half the         *)
(* sampling interval, queue lengths up to MaxQueue and up to MaxPackets    *)
(* callback notifications.                                                 *)
(***************************************************************************)
SimLinkFiles == {[i \in 1 .. k |-> LinkRow(i - 1, i, PlusTwo)] : k \in 1 .. MaxSimLinks}

SimTimes == {k * (MonitorIntervalMs \div 2) : k \in 1 .. 2 * MaxRounds + 1}

SimInit ==
    /\ pc = "Setup"
    /\ linkFileOpen = TRUE /\ demandFileOpen = TRUE
    /\ \E f \in SimLinkFiles :
          LET st == LoadLinksFile(f)
          IN  /\ linkRowsOk = RowsOk(f) /\ linkRowsBad = RowsBad(f)
              /\ g_links = st.links
              /\ g_numNodes = st.numNodes
              /\ g_nodeIdToName = st.names
              /\ g_adjList = AdjListOf(st.links, st.numNodes)
    /\ demandRowsOk = 1 /\ demandRowsBad = 0
    /\ g_demands = LoadDemandsRows(<<[ok |-> TRUE, srcId |-> 0, dstId |-> 1]>>, 1, <<>>)
    /\ NothingSetUp /\ NoFlows
    /\ simTime \in SimTimes
    /\ NotRunning

Running == pc = "Run" /\ ~stopped

\* the event loop takes a MonitorQueues event
MonitorQueues ==
    /\ Running
    /\ NextEvent(events).kind = "monitor"
    /\ now' = NextEvent(events).time
    /\ \E depth \in [1 .. Len(g_monitoredLinks) -> 0 .. MaxQueue] :
          g_monitorFile' = g_monitorFile \o MonitorRows(g_monitoredLinks, now', depth)
    /\ events' = (events \ {NextEvent(events)}) \cup
                    {[time |-> NextSample(now', MonitorIntervalMs), uid |-> nextUid,
                      kind |-> "monitor"]}
    /\ nextUid' = nextUid + 1
    /\ UNCHANGED <<pc, loadVars, topoVars, g_demands, setupVars, loopVars, flowVars,
                   simTime, stopped, g_linkStats, linkStatsFile, delivered>>

\* the event loop takes the event of Simulator::Stop
StopEvent ==
    /\ Running
    /\ NextEvent(events).kind = "stop"
    /\ now' = NextEvent(events).time
    /\ events' = events \ {NextEvent(events)}
    /\ stopped' = TRUE
    /\ UNCHANGED <<pc, loadVars, topoVars, g_demands, setupVars, loopVars, flowVars,
                   simTime, nextUid, g_monitorFile, g_linkStats, linkStatsFile, delivered>>

\* a MacTx trace fires during the run; linkIndex Len(g_linkStats) stands for every
\* index outside the table
LinkTxCallback ==
    /\ Running
    /\ Notifications(delivered, 0) < MaxPackets
    /\ \E linkIndex \in 0 .. Len(g_linkStats) :
          /\ g_linkStats' = CountTx(g_linkStats, linkIndex)
          /\ delivered' = [delivered EXCEPT ![linkIndex].tx = @ + 1]
    /\ UNCHANGED <<pc, loadVars, topoVars, g_demands, setupVars, loopVars, flowVars,
                   simTime, now, events, nextUid, stopped, g_monitorFile, linkStatsFile>>

\* a MacRx trace fires during the run
LinkRxCallback ==
    /\ Running
    /\ Notifications(delivered, 0) < MaxPackets
    /\ \E linkIndex \in 0 .. Len(g_linkStats) :
          /\ g_linkStats' = CountRx(g_linkStats, linkIndex)
          /\ delivered' = [delivered EXCEPT ![linkIndex].rx = @ + 1]
    /\ UNCHANGED <<pc, loadVars, topoVars, g_demands, setupVars, loopVars, flowVars,
                   simTime, now, events, nextUid, stopped, g_monitorFile, linkStatsFile>>

\* Simulator::Run() has returned: g_monitoredLinks.clear(), Simulator::Destroy(),
\* SaveLinkStats, return 0
Report ==
    /\ pc = "Run" /\ stopped
    /\ g_monitoredLinks' = <<>>
    /\ events' = {}
    /\ linkStatsFile' = SaveLinkStats(g_links, g_linkStats)
    /\ pc' = "exit0"
    /\ UNCHANGED <<loadVars, topoVars, g_demands, g_linkInterface, g_nodeFirstIp,
                   nInterfaces, ifaceLink, loopVars, flowVars, simTime, now, nextUid,
                   stopped, g_monitorFile, g_linkStats, delivered>>

SimNext ==
    \/ CreateLinks \/ DemandRouted \/ ScheduleRun
    \/ MonitorQueues \/ StopEvent \/ LinkTxCallback \/ LinkRxCallback
    \/ Report

SimSpec == SimInit /\ [][SimNext]_vars

\* the sampling rounds written so far
Rounds == Len(g_monitorFile) \div (2 * Len(g_links))

SamplingPending == {e \in events : e.kind = "monitor"}

\* C7: from the scheduling of the first sampling on, the monitor file holds whole
\* rounds, round k being one record per direction of every link (two per link, in
\* link order) stamped k * I; no round bears a time after the stop time; until the
\* run is over exactly one sampling event is pending, for the time of the next
\* round; and once the run has stopped every k * I before the stop time has had its
\* round.
C7_PeriodicSampling ==
    pc \in {"Run", "exit0"} =>
        /\ Len(g_monitorFile) = Rounds * 2 * Len(g_links)
        /\ \A k \in 1 .. Rounds : \A i \in 1 .. Len(g_links) :
              LET fwd == g_monitorFile[(k - 1) * 2 * Len(g_links) + 2 * i - 1]
                  bwd == g_monitorFile[(k - 1) * 2 * Len(g_links) + 2 * i]
              IN  /\ fwd.time = k * MonitorIntervalMs
                  /\ bwd.time = k * MonitorIntervalMs
                  /\ fwd.srcName = g_links[i].srcName /\ fwd.dstName = g_links[i].dstName
                  /\ bwd.srcName = g_links[i].dstName /\ bwd.dstName = g_links[i].srcName
        /\ Rounds * MonitorIntervalMs <= simTime
        /\ pc = "Run" =>
              /\ Cardinality(SamplingPending) = 1
              /\ \A e \in SamplingPending : e.time = (Rounds + 1) * MonitorIntervalMs
        /\ (stopped \/ pc = "exit0") =>
              \A k \in 1 .. 2 * MaxRounds + 1 :
                  k * MonitorIntervalMs < simTime => k <= Rounds

\* the run over two links has stopped between the second and the third round, whose
\* event is left pending
C7_Witness ==
    /\ pc = "Run" /\ stopped
    /\ Len(g_links) = 2
    /\ Rounds = 2
    /\ simTime > 2 * MonitorIntervalMs
    /\ \E e \in events : e.kind = "monitor" /\ e.time > simTime

\* C8: the counters of link i count the transmit and the receive notifications
\* delivered for index i and nothing else, and the report row of link i shows
\* these two counts, lost = max(tx - rx, 0) and the rate lost / tx to six decimals,
\* 0 when tx = 0.
C8_ReportCountsNotifications ==
    /\ \A i \in 1 .. Len(g_linkStats) :
          /\ g_linkStats[i].txPackets = delivered[i - 1].tx
          /\ g_linkStats[i].rxPackets = delivered[i - 1].rx
    /\ pc = "exit0" =>
          /\ Len(linkStatsFile) = Len(g_links)
          /\ \A i \in 1 .. Len(g_links) :
                LET row == linkStatsFile[i]
                    tx == delivered[i - 1].tx
                    rx == delivered[i - 1].rx
                IN  /\ row.srcName = g_links[i].srcName
                    /\ row.dstName = g_links[i].dstName
                    /\ row.txPackets = tx
                    /\ row.rxPackets = rx
                    /\ row.lostPackets = (IF tx > rx THEN tx - rx ELSE 0)
                    /\ row.lostPackets >= 0
                    /\ (tx = 0) => row.packetLossRate = 0
                    /\ (tx > 0) =>
                          /\ 2 * tx * row.packetLossRate
                                 <= 2 * 1000000 * row.lostPackets + tx
                          /\ 2 * tx * row.packetLossRate
                                 > 2 * 1000000 * row.lostPackets - tx

\* a link with two transmit and one receive notification reports one packet lost,
\* rate 0.500000, and a notification went to an index outside the table
C8_Witness ==
    /\ pc = "exit0"
    /\ \E i \in 1 .. Len(linkStatsFile) :
          /\ linkStatsFile[i].txPackets = 2 /\ linkStatsFile[i].rxPackets = 1
          /\ linkStatsFile[i].lostPackets = 1
          /\ linkStatsFile[i].packetLossRate = 500000
    /\ delivered[Len(g_links)].tx + delivered[Len(g_links)].rx > 0


====
